---- MODULE Spec2Model ----
(***************************************************************************)
(* Model of the source classifier (sourceClassifier.py) and of the bot     *)
(* commands that store its verdicts (SourceBot.py).                        *)
(*                                                                         *)
(* Strings are TLA+ strings handled character by character (Len, SubSeq,   *)
(* \o), so lower-casing, URL parsing, tag stripping and the regular        *)
(* expressions are computed on the text itself.  Input text is ASCII.      *)
(*                                                                         *)
(* Python floats are IEEE-754 doubles.  A double is modelled exactly for   *)
(* the values the tally can hold: magnitude = (hi * 2^30 + lo) * 2^-54,    *)
(* and addition rounds to 53 significant bits, ties to even.  Decimal      *)
(* literals of the source (1.1, 3.5, 8.0 ...) are written Double(11),      *)
(* Double(35), Double(80): the double nearest to that many tenths.         *)
(*                                                                         *)
(* math.exp and the division of softmax are modelled in rational           *)
(* arithmetic: exp is tabulated to six decimals at tenth-spaced arguments  *)
(* and a confidence is a fraction <<numerator, denominator>>.              *)
(***************************************************************************)
EXTENDS Integers, Sequences, FiniteSets, TLC

(***************************************************************************)
(* CONFIG                                                                  *)
(***************************************************************************)
CATEGORIES == <<"Primary", "Secondary", "Tertiary", "Other">>

CategorySet == {CATEGORIES[i] : i \in 1..Len(CATEGORIES)}

PRIMARY_YEAR_WINDOW == <<1989, 1995>>

DOMAIN_HINTS_PRIMARY == <<"info.cern.ch", "cern.ch", "ietf.org", "rfc-editor.org", "w3.org">>

DOMAIN_HINTS_SECONDARY ==
    <<"jstor.org", "acm.org", "mit.edu", "nytimes.com", "arxiv.org", "wired.com",
      "theguardian.com", "nature.com">>

DOMAIN_HINTS_TERTIARY == <<"wikipedia.org", "britannica.com", "scholarpedia.org", "britannica.co.uk">>

DOMAIN_HINTS_OTHER ==
    <<"blogspot.", "medium.com", "substack.com", "reddit.com", "github.io", "wordpress.com">>

\* keyword tables: <<keyword, weight in tenths>>, in the dict's insertion order
PRIMARY_KEYWORDS ==
    << <<"original document", 20>>, <<"archival", 17>>, <<"archive copy", 15>>,
       <<"source code", 22>>, <<"rfc", 22>>, <<"specification", 16>>,
       <<"minutes", 18>>, <<"memo", 16>>, <<"press release", 15>>,
       <<"primary source", 20>>, <<"scan", 16>> >>

SECONDARY_KEYWORDS ==
    << <<"analysis", 16>>, <<"overview", 16>>, <<"history of the web", 21>>,
       <<"short history of", 23>>, <<"retrospective", 20>>, <<"we look back", 19>>,
       <<"this page recounts", 19>>, <<"case study", 16>>, <<"review article", 18>>,
       <<"synthesis", 15>>, <<"survey", 15>> >>

TERTIARY_KEYWORDS ==
    << <<"encyclopedia", 21>>, <<"glossary", 16>>, <<"compendium", 18>>,
       <<"dictionary", 16>>, <<"almanac", 16>> >>

OTHER_KEYWORDS ==
    << <<"blog", 12>>, <<"personal", 9>>, <<"opinion", 11>>, <<"musings", 10>>,
       <<"my thoughts", 10>> >>

URL_TERTIARY_CUES == <<"/wiki/", "/encyclopedia">>

URL_SECONDARY_CUES ==
    <<"/history-of", "/short-history", "/retrospective", "/timeline", "/overview", "/case-study">>

URL_PRIMARY_CUES == <<"/rfc/", "/spec/", "/specification", "/minutes", "/memos/", "/press-release">>

STRUCTURE_SECONDARY_HEADERS ==
    <<"background", "methodology", "results", "discussion", "conclusion",
      "related work", "literature review">>

\* url substring -> forced category
EXPLICIT_OVERRIDES ==
    << <<"home.cern/science/computing/birth-web/short-history-web", "Secondary">> >>

(***************************************************************************)
(* IEEE-754 doubles                                                        *)
(***************************************************************************)
\* the double nearest to t tenths, as <<hi, lo>>
DoubleBits ==
    (0 :> <<0, 0>>) @@
    (4 :> <<6710886, 429496730>>) @@
    (6 :> <<10066329, 644245094>>) @@
    (7 :> <<11744051, 214748364>>) @@
    (8 :> <<13421772, 858993460>>) @@
    (9 :> <<15099494, 429496730>>) @@
    (10 :> <<16777216, 0>>) @@
    (11 :> <<18454937, 644245096>>) @@
    (12 :> <<20132659, 214748364>>) @@
    (14 :> <<23488102, 429496728>>) @@
    (15 :> <<25165824, 0>>) @@
    (16 :> <<26843545, 644245096>>) @@
    (17 :> <<28521267, 214748364>>) @@
    (18 :> <<30198988, 858993460>>) @@
    (19 :> <<31876710, 429496728>>) @@
    (20 :> <<33554432, 0>>) @@
    (21 :> <<35232153, 644245096>>) @@
    (22 :> <<36909875, 214748368>>) @@
    (23 :> <<38587596, 858993456>>) @@
    (35 :> <<58720256, 0>>) @@
    (80 :> <<134217728, 0>>) @@
    (100 :> <<167772160, 0>>)

Double(t) == [neg |-> FALSE, hi |-> DoubleBits[t][1], lo |-> DoubleBits[t][2]]

RECURSIVE Pow2(_)
Pow2(n) == IF n = 0 THEN 1 ELSE 2 * Pow2(n - 1)

Two30 == Pow2(30)

\* number of low bits of lo that do not fit in a 53-bit significand
RECURSIVE DropBits(_)
DropBits(hi) == IF hi < 8388608 THEN 0 ELSE 1 + DropBits(hi \div 2)

MagLt(a, b) == a.hi < b.hi \/ (a.hi = b.hi /\ a.lo < b.lo)

IsZero(a) == a.hi = 0 /\ a.lo = 0

\* round a magnitude to the nearest double, ties to even
RoundMag(hi, lo) ==
    LET s    == DropBits(hi)
        unit == Pow2(s)
        r    == lo % unit
        down == lo - r
        up   == r * 2 > unit \/ (r * 2 = unit /\ (down \div unit) % 2 = 1)
        lo2  == IF up THEN down + unit ELSE down
    IN  IF lo2 = Two30 THEN <<hi + 1, 0>> ELSE <<hi, lo2>>

MagAdd(a, b) ==
    LET lo == a.lo + b.lo
    IN  IF lo >= Two30 THEN RoundMag(a.hi + b.hi + 1, lo - Two30)
                       ELSE RoundMag(a.hi + b.hi, lo)

\* a - b for magnitudes with b <= a
MagSub(a, b) ==
    IF a.lo >= b.lo THEN RoundMag(a.hi - b.hi, a.lo - b.lo)
                    ELSE RoundMag(a.hi - b.hi - 1, a.lo + Two30 - b.lo)

\* a + b
FAdd(a, b) ==
    IF a.neg = b.neg
    THEN LET m == MagAdd(a, b) IN [neg |-> a.neg, hi |-> m[1], lo |-> m[2]]
    ELSE IF MagLt(a, b)
         THEN LET m == MagSub(b, a) IN [neg |-> b.neg, hi |-> m[1], lo |-> m[2]]
         ELSE LET m == MagSub(a, b)
              IN  [neg |-> a.neg /\ ~(m[1] = 0 /\ m[2] = 0), hi |-> m[1], lo |-> m[2]]

FNeg(a) == [a EXCEPT !.neg = ~a.neg]

\* a < b
FLt(a, b) ==
    IF IsZero(a) /\ IsZero(b) THEN FALSE
    ELSE IF a.neg /\ ~b.neg THEN TRUE
    ELSE IF ~a.neg /\ b.neg THEN FALSE
    ELSE IF a.neg THEN MagLt(b, a) ELSE MagLt(a, b)

FLe(a, b) == ~FLt(b, a)

\* Python max(a, b) and min(a, b): the first argument wins unless the second is strictly better
FMax(a, b) == IF FLt(a, b) THEN b ELSE a

FMin(a, b) == IF FLt(b, a) THEN b ELSE a

\* the value to the nearest tenth, e.g. 42 for 4.2 and for 4.2000000000000002
Tenths(a) ==
    LET t == ((a.hi \div 1024) * 10 + 8192) \div 16384
    IN  IF a.neg THEN 0 - t ELSE t

\* f"{a:.2f}" as a number of hundredths
Hundredths(a) ==
    LET h == ((a.hi \div 1024) * 100 + 8192) \div 16384
    IN  IF a.neg THEN 0 - h ELSE h

PER_VOTER_CAP == Double(35)

PER_CATEGORY_CAP == Double(80)

\* SOFTMAX_TEMP = 1.25: round(exp(-(k/10)/1.25) * 10^6) for k = 0, 1, 2, ...
ExpTable == <<
    1000000, 923116, 852144, 786628, 726149, 670320, 618783, 571209, 527292, 486752,
    449329, 414783, 382893, 353455, 326280, 301194, 278037, 256661, 236928, 218712,
    201897, 186374, 172045, 158817, 146607, 135335, 124930, 115325, 106459, 98274,
    90718, 83743, 77305, 71361, 65875, 60810, 56135, 51819, 47835, 44157,
    40762, 37628, 34735, 32065, 29599, 27324, 25223, 23284, 21494, 19841,
    18316, 16907, 15608, 14408, 13300, 12277, 11333, 10462, 9658, 8915,
    8230, 7597, 7013, 6474, 5976, 5517, 5092, 4701, 4339, 4006,
    3698, 3414, 3151, 2909, 2685, 2479, 2288, 2112, 1950, 1800,
    1662, 1534, 1416, 1307, 1207, 1114, 1028, 949, 876, 809,
    747, 689, 636, 587, 542, 500, 462, 426, 394, 363,
    335, 310, 286, 264, 244, 225, 208, 192, 177, 163,
    151, 139, 128, 119, 109, 101, 93, 86, 79, 73,
    68, 63, 58, 53, 49, 45, 42, 39, 36, 33,
    30, 28, 26, 24, 22, 20, 19, 17, 16, 15,
    14, 13, 12, 11, 10, 9, 8, 8, 7, 7,
    6, 6, 5, 5, 4, 4, 4, 4, 3, 3,
    3, 3, 2, 2, 2, 2, 2, 2, 1, 1,
    1, 1, 1, 1, 1, 1, 1, 1, 1, 1,
    1, 1, 0, 0, 0, 0, 0, 0, 0, 0,
    0, 0, 0, 0, 0, 0, 0, 0, 0, 0,
    0 >>

(***************************************************************************)
(* UTILITIES                                                               *)
(***************************************************************************)
UpperChars ==
    <<"A", "B", "C", "D", "E", "F", "G", "H", "I", "J", "K", "L", "M",
      "N", "O", "P", "Q", "R", "S", "T", "U", "V", "W", "X", "Y", "Z">>

LowerChars ==
    <<"a", "b", "c", "d", "e", "f", "g", "h", "i", "j", "k", "l", "m",
      "n", "o", "p", "q", "r", "s", "t", "u", "v", "w", "x", "y", "z">>

DigitChars == <<"0", "1", "2", "3", "4", "5", "6", "7", "8", "9">>

UpperSet == {UpperChars[i] : i \in 1..26}

LowerSet == {LowerChars[i] : i \in 1..26}

DigitSet == {DigitChars[i] : i \in 1..10}

LowerOf == [c \in UpperSet |-> LowerChars[CHOOSE i \in 1..26 : UpperChars[i] = c]]

\* regex \s
WhiteSpace == {" ", "\t", "\n", "\r", "\f"}

\* regex \w
IsWordChar(c) == c \in UpperSet \/ c \in LowerSet \/ c \in DigitSet \/ c = "_"

CharAt(s, i) == SubSeq(s, i, i)

\* s[i:] for a 1-based i
From(s, i) == SubSeq(s, i, Len(s))

\* "".join(pieces[lo..hi])
RECURSIVE JoinPieces(_, _, _)
JoinPieces(pieces, lo, hi) ==
    IF lo > hi THEN ""
    ELSE IF lo = hi THEN pieces[lo]
    ELSE LET mid == (lo + hi) \div 2
         IN  JoinPieces(pieces, lo, mid) \o JoinPieces(pieces, mid + 1, hi)

\* (s or "").lower()
safe_lower(s) ==
    JoinPieces([i \in 1..Len(s) |->
                   IF CharAt(s, i) \in UpperSet THEN LowerOf[CharAt(s, i)] ELSE CharAt(s, i)],
               1, Len(s))

StartsAt(sub, hay, i) == i >= 1 /\ i + Len(sub) - 1 <= Len(hay) /\ SubSeq(hay, i, i + Len(sub) - 1) = sub

\* sub in hay
Contains(sub, hay) == \E i \in 1..(Len(hay) - Len(sub) + 1) : StartsAt(sub, hay, i)

\* least i in lo..hi with hay[i..] starting with sub, 0 when none
RECURSIVE FindIn(_, _, _, _)
FindIn(sub, hay, lo, hi) ==
    IF lo > hi THEN 0
    ELSE IF lo = hi THEN (IF StartsAt(sub, hay, lo) THEN lo ELSE 0)
    ELSE LET mid  == (lo + hi) \div 2
             left == FindIn(sub, hay, lo, mid)
         IN  IF left # 0 THEN left ELSE FindIn(sub, hay, mid + 1, hi)

\* hay.find(sub, start), 1-based; 0 when absent
Find(sub, hay, start) == FindIn(sub, hay, start, Len(hay) - Len(sub) + 1)

\* least i in lo..hi with hay[i] one of the characters, 0 when none
RECURSIVE FindCharIn(_, _, _, _)
FindCharIn(chars, hay, lo, hi) ==
    IF lo > hi THEN 0
    ELSE IF lo = hi THEN (IF CharAt(hay, lo) \in chars THEN lo ELSE 0)
    ELSE LET mid  == (lo + hi) \div 2
             left == FindCharIn(chars, hay, lo, mid)
         IN  IF left # 0 THEN left ELSE FindCharIn(chars, hay, mid + 1, hi)

FindChar(chars, hay, start) == FindCharIn(chars, hay, start, Len(hay))

EndsWith(s, suffix) == Len(suffix) <= Len(s) /\ SubSeq(s, Len(s) - Len(suffix) + 1, Len(s)) = suffix

\* s.replace(old, new) for a non-empty old
RECURSIVE Replace(_, _, _)
Replace(s, old, new) ==
    LET i == Find(old, s, 1)
    IN  IF i = 0 THEN s
        ELSE SubSeq(s, 1, i - 1) \o new \o Replace(From(s, i + Len(old)), old, new)

\* any(sub in hay for sub in substrs)
any_in(substrs, hay) == \E k \in 1..Len(substrs) : Contains(substrs[k], hay)

\* re.sub(r"\s+", " ", s): the first character of a whitespace run becomes a space
CollapseWs(s) ==
    JoinPieces([i \in 1..Len(s) |->
                   IF CharAt(s, i) \notin WhiteSpace THEN CharAt(s, i)
                   ELSE IF i > 1 /\ CharAt(s, i - 1) \in WhiteSpace THEN "" ELSE " "],
               1, Len(s))

\* s.strip() of a string whose whitespace runs are single spaces
StripSpaces(s) ==
    LET a == IF Len(s) >= 1 /\ CharAt(s, 1) = " " THEN 2 ELSE 1
        b == IF Len(s) >= 1 /\ CharAt(s, Len(s)) = " " THEN Len(s) - 1 ELSE Len(s)
    IN  SubSeq(s, a, b)

normalize_ws(s) == StripSpaces(CollapseWs(s))

\* the end of a match of <(script|style).*?>.*?</\1> starting at i, 0 when none
ScriptMatchEnd(low, i) ==
    LET name == IF StartsAt("<script", low, i) THEN "script"
                ELSE IF StartsAt("<style", low, i) THEN "style" ELSE ""
        p    == IF name = "" THEN 0 ELSE Find(">", low, i + 1 + Len(name))
        e    == IF p = 0 THEN 0 ELSE Find("</" \o name \o ">", low, p + 1)
    IN  IF e = 0 THEN 0 ELSE e + Len(name) + 2

\* least non-zero of two positions (0 = absent)
FirstOf(a, b) == IF a = 0 THEN b ELSE IF b = 0 THEN a ELSE IF a < b THEN a ELSE b

\* re.sub(r"(?is)<(script|style).*?>.*?</\1>", " ", html), scanning from position i
RECURSIVE SubScripts(_, _, _)
SubScripts(html, low, i) ==
    LET k == FirstOf(Find("<script", low, i), Find("<style", low, i))
        e == IF k = 0 THEN 0 ELSE ScriptMatchEnd(low, k)
    IN  IF k = 0 THEN From(html, i)
        ELSE IF e = 0 THEN SubSeq(html, i, k) \o SubScripts(html, low, k + 1)
        ELSE SubSeq(html, i, k - 1) \o " " \o SubScripts(html, low, e + 1)

\* re.sub(r"(?is)<[^>]+>", " ", html), scanning from position i
RECURSIVE SubTags(_, _)
SubTags(html, i) ==
    LET k == Find("<", html, i)
        j == IF k = 0 THEN 0 ELSE Find(">", html, k + 1)
    IN  IF j = 0 THEN From(html, i)
        ELSE IF j = k + 1 THEN SubSeq(html, i, k) \o SubTags(html, k + 1)
        ELSE SubSeq(html, i, k - 1) \o " " \o SubTags(html, j + 1)

Unescape(html) ==
    Replace(Replace(Replace(Replace(Replace(Replace(html,
        "&nbsp;", " "), "&amp;", "&"), "&lt;", "<"), "&gt;", ">"), "&quot;", "\""), "&#39;", "'")

strip_tags(html) ==
    IF html = "" THEN ""
    ELSE LET noScript == SubScripts(html, safe_lower(html), 1)
         IN  normalize_ws(Unescape(SubTags(noScript, 1)))

\* re.search(r"(?is)<title[^>]*>(.*?)</title>", html)
extract_title(html) ==
    LET low == safe_lower(html)
        i   == Find("<title", low, 1)
        p   == IF i = 0 THEN 0 ELSE Find(">", low, i + 6)
        e   == IF p = 0 THEN 0 ELSE Find("</title>", low, p + 1)
    IN  IF e = 0 THEN "" ELSE normalize_ws(SubSeq(html, p + 1, e - 1))

\* the option type of Python's Optional: <<>> is None, <<v>> is v
None == <<>>

Some(v) == <<v>>

SetMin(S) == CHOOSE x \in S : \A y \in S : x <= y

SetMax(S) == CHOOSE x \in S : \A y \in S : x >= y

\* regex \b between positions i - 1 and i
WordBoundary(text, i) ==
    LET before == i > 1 /\ i - 1 <= Len(text) /\ IsWordChar(CharAt(text, i - 1))
        after  == i >= 1 /\ i <= Len(text) /\ IsWordChar(CharAt(text, i))
    IN  before # after

\* re.search(r"\b(w1|w2|...)\b", text)
WordSearch(words, text) ==
    \E k \in 1..Len(words) : \E i \in 1..(Len(text) - Len(words[k]) + 1) :
        /\ StartsAt(words[k], text, i)
        /\ WordBoundary(text, i)
        /\ WordBoundary(text, i + Len(words[k]))

Quotes == {"\"", "'"}

\* last position of the stretch without ">" that follows the <meta at i
MetaStretch(low, i) == LET g == Find(">", low, i + 5) IN IF g = 0 THEN Len(low) ELSE g - 1

\* ATTR=["']KEY["'] at position a
MetaNameAt(low, attr, key, a) ==
    /\ StartsAt(attr \o "=", low, a)
    /\ CharAt(low, a + Len(attr) + 1) \in Quotes
    /\ StartsAt(key, low, a + Len(attr) + 2)
    /\ a + Len(attr) + Len(key) + 2 <= Len(low)
    /\ CharAt(low, a + Len(attr) + Len(key) + 2) \in Quotes

\* content=["'] at position c with a closing quote somewhere after it
MetaContentAt(low, c) ==
    /\ StartsAt("content=", low, c)
    /\ c + 8 <= Len(low)
    /\ CharAt(low, c + 8) \in Quotes
    /\ FindChar(Quotes, low, c + 9) # 0

\* where [^>]*content=["'] can match after a name that ends before position b
MetaContents(low, b, last) == {c \in b..(last + 1) : MetaContentAt(low, c)}

\* where [^>]+ATTR=["']KEY["'] can match in the tag opened at i
MetaNames(low, attr, key, i) ==
    {a \in (i + 6)..(MetaStretch(low, i) + 1) :
        /\ MetaNameAt(low, attr, key, a)
        /\ MetaContents(low, a + Len(attr) + Len(key) + 3, MetaStretch(low, i)) # {}}

\* the text captured by  <meta[^>]+ATTR=["']KEY["'][^>]*content=["'](.*?)["']  (?is)
\* in the tag opened at i: greedy, so the last ATTR=KEY and the last content= win
MetaCapture(html, low, attr, key, i) ==
    LET a == SetMax(MetaNames(low, attr, key, i))
        c == SetMax(MetaContents(low, a + Len(attr) + Len(key) + 3, MetaStretch(low, i)))
    IN  SubSeq(html, c + 9, FindChar(Quotes, low, c + 9) - 1)

\* re.search of that pattern: the leftmost <meta that matches, None when none does
MetaSearch(html, low, attr, key) ==
    LET matching == {i \in 1..Len(low) : StartsAt("<meta", low, i) /\ MetaNames(low, attr, key, i) # {}}
    IN  IF matching = {} THEN None ELSE Some(MetaCapture(html, low, attr, key, SetMin(matching)))

MetaContent(html, attr, key) == MetaSearch(html, safe_lower(html), attr, key)

META_NAMES == <<"description", "author", "keywords">>

META_PROPERTIES ==
    <<"og:title", "og:description", "twitter:title", "twitter:description",
      "article:published_time", "article:modified_time", "og:updated_time">>

MetaAttr(key) == IF \E k \in 1..Len(META_NAMES) : META_NAMES[k] = key THEN "name" ELSE "property"

\* the dict of the meta tags found; a key is present only when its tag matched
extract_meta(html) ==
    LET keys  == {META_NAMES[k] : k \in 1..Len(META_NAMES)}
                     \cup {META_PROPERTIES[k] : k \in 1..Len(META_PROPERTIES)}
        found == {key \in keys : MetaContent(html, MetaAttr(key), key) # None}
    IN  [key \in found |-> normalize_ws(MetaContent(html, MetaAttr(key), key)[1])]

\* meta.get(key, "")
MetaGet(meta, key) == IF key \in DOMAIN meta THEN meta[key] ELSE ""

\* int(s) for a string of digits
RECURSIVE ParseInt(_)
ParseInt(s) ==
    IF s = "" THEN 0
    ELSE ParseInt(SubSeq(s, 1, Len(s) - 1)) * 10
             + (CHOOSE d \in 0..9 : DigitChars[d + 1] = CharAt(s, Len(s)))

\* where r"\b(18|19|20)\d{2}\b" matches in text
YearMatches(text) ==
    {i \in 1..(Len(text) - 3) :
        /\ SubSeq(text, i, i + 1) \in {"18", "19", "20"}
        /\ CharAt(text, i + 2) \in DigitSet
        /\ CharAt(text, i + 3) \in DigitSet
        /\ WordBoundary(text, i)
        /\ WordBoundary(text, i + 4)}

\* re.findall returns, for a pattern with one group, what the group captured:
\* here the two digits matched by (18|19|20)
FindAllYears(text) == {SubSeq(text, i, i + 1) : i \in YearMatches(text)}

\* (earliest, latest), None when no year qualifies
extract_years(text, nowYear) ==
    LET years == {ParseInt(y) : y \in {y \in FindAllYears(text) :
                                          1800 < ParseInt(y) /\ ParseInt(y) <= nowYear}}
    IN  IF years = {} THEN [earliest |-> None, latest |-> None]
        ELSE [earliest |-> Some(SetMin(years)), latest |-> Some(SetMax(years))]

SchemeChars == UpperSet \cup LowerSet \cup DigitSet \cup {"+", "-", "."}

\* schemes for which urlparse splits ";params" off the path
USES_PARAMS ==
    {"", "ftp", "hdl", "prospero", "http", "imap", "https", "shttp", "rtsp", "rtspu",
     "sip", "sips", "mms", "sftp", "tel"}

\* url.lstrip() of C0 control characters and spaces
RECURSIVE LStrip(_)
LStrip(s) == IF s # "" /\ CharAt(s, 1) \in WhiteSpace THEN LStrip(Tail(s)) ELSE s

\* last position of a character in s, 0 when absent
LastIndex(ch, s) ==
    LET S == {i \in 1..Len(s) : CharAt(s, i) = ch} IN IF S = {} THEN 0 ELSE SetMax(S)

\* urlsplit, first lines: strip leading control characters and spaces, drop tab, CR, LF
CleanUrl(url) == Replace(Replace(Replace(LStrip(url), "\t", ""), "\r", ""), "\n", "")

\* position of the ":" that ends the scheme of u, 0 when u has no scheme
SchemeEnd(u) ==
    LET colon == Find(":", u, 1)
    IN  IF /\ colon > 1
           /\ CharAt(u, 1) \in UpperSet \cup LowerSet
           /\ \A i \in 1..(colon - 1) : CharAt(u, i) \in SchemeChars
        THEN colon ELSE 0

SplitScheme(u, colon) ==
    [scheme |-> IF colon = 0 THEN "" ELSE safe_lower(SubSeq(u, 1, colon - 1)),
     rest   |-> IF colon = 0 THEN u ELSE From(u, colon + 1)]

\* _splitnetloc(url, 2) when url starts with "//"
SplitNetloc(s, delim) ==
    IF ~StartsAt("//", s.rest, 1) THEN [scheme |-> s.scheme, netloc |-> "", rest |-> s.rest]
    ELSE IF delim = 0 THEN [scheme |-> s.scheme, netloc |-> From(s.rest, 3), rest |-> ""]
    ELSE [scheme |-> s.scheme, netloc |-> SubSeq(s.rest, 3, delim - 1), rest |-> From(s.rest, delim)]

\* url.split("#", 1)[0]
DropFragment(u, hash) == IF hash = 0 THEN u ELSE SubSeq(u, 1, hash - 1)

\* url.split("?", 1)
SplitQuery(s, u, qmark) ==
    [scheme |-> s.scheme, netloc |-> s.netloc,
     rest   |-> IF qmark = 0 THEN u ELSE SubSeq(u, 1, qmark - 1),
     query  |-> IF qmark = 0 THEN "" ELSE From(u, qmark + 1)]

\* _splitparams for the schemes that use params; raised: "Invalid IPv6 URL"
\* (a bracketed host is only checked for balanced brackets)
SplitParams(s, semi) ==
    [raised |-> Contains("[", s.netloc) # Contains("]", s.netloc),
     scheme |-> s.scheme,
     netloc |-> s.netloc,
     path   |-> IF semi = 0 THEN s.rest ELSE SubSeq(s.rest, 1, semi - 1),
     params |-> IF semi = 0 THEN "" ELSE From(s.rest, semi + 1),
     query  |-> s.query]

\* where _splitparams cuts: the first ";" of the last path segment
ParamsStart(s) ==
    IF s.scheme \in USES_PARAMS
    THEN Find(";", s.rest, IF LastIndex("/", s.rest) = 0 THEN 1 ELSE LastIndex("/", s.rest))
    ELSE 0

UrlStage1(u) == SplitScheme(u, SchemeEnd(u))

UrlStage2(s) == SplitNetloc(s, FindChar({"/", "?", "#"}, s.rest, 3))

UrlStage3(s, u) == SplitQuery(s, u, Find("?", u, 1))

UrlStage4(s) == SplitParams(s, ParamsStart(s))

UrlStage23(s) == UrlStage3(s, DropFragment(s.rest, Find("#", s.rest, 1)))

\* urllib.parse.urlparse: [raised, scheme, netloc, path, params, query]
urlparse(url) == UrlStage4(UrlStage23(UrlStage2(UrlStage1(CleanUrl(url)))))

\* parse_url as it would be if a URL without a host were rejected
parse_url_strict(url) ==
    [raised |-> urlparse(url).raised \/ urlparse(url).netloc = "",
     domain |-> safe_lower(urlparse(url).netloc),
     path   |-> safe_lower(urlparse(url).path),
     query  |-> safe_lower(urlparse(url).query),
     full   |-> safe_lower(url)]

\* raised: urlparse raised ValueError and so does parse_url
parse_url(url) ==
    LET u == urlparse(url)
    IN  [raised |-> u.raised,
         domain |-> safe_lower(u.netloc),
         path   |-> safe_lower(u.path),
         query  |-> safe_lower(u.query),
         full   |-> safe_lower(url)]

\* html_text[:1024]
Head1024(s) == IF Len(s) <= 1024 THEN s ELSE SubSeq(s, 1, 1024)

looks_like_pdf(url, html_text) ==
    LET u == safe_lower(url)
    IN  \/ EndsWith(u, ".pdf")
        \/ Contains(".pdf?", u)
        \/ (html_text # "" /\ Contains("%PDF-", Head1024(html_text)))

has_references_section(text) ==
    WordSearch(<<"references", "bibliography", "works cited", "further reading">>, safe_lower(text))

(***************************************************************************)
(* DATA STRUCTURES                                                         *)
(***************************************************************************)
Vote(category, amount, reason) == [category |-> category, amount |-> amount, reason |-> reason]

\* str(n) for n >= 0
RECURSIVE IntStr(_)
IntStr(n) == IF n < 10 THEN DigitChars[n + 1] ELSE IntStr(n \div 10) \o DigitChars[(n % 10) + 1]

\* f"{a:.2f}"
Fmt2(a) ==
    LET h == Hundredths(a)
        m == IF h < 0 THEN 0 - h ELSE h
    IN  (IF h < 0 THEN "-" ELSE "") \o IntStr(m \div 100) \o "."
            \o DigitChars[((m \div 10) % 10) + 1] \o DigitChars[(m % 10) + 1]

\* the amount a trigger string records after its last "+", in hundredths
TriggerAmount(trigger) ==
    LET plus == LastIndex("+", trigger)
        txt  == From(trigger, plus + 1)
        neg  == StartsAt("-", txt, 1)
        mag  == IF neg THEN Tail(txt) ELSE txt
        dot  == Find(".", mag, 1)
        h    == ParseInt(SubSeq(mag, 1, dot - 1)) * 100 + ParseInt(From(mag, dot + 1))
    IN  IF neg THEN 0 - h ELSE h

ZeroScores == [c \in CategorySet |-> Double(0)]

\* Tally() as it would be with one score dict and one trigger list shared by
\* all instances (a mutable default instead of default_factory)
NewTallyShared(prev) ==
    IF prev = None THEN [scores |-> ZeroScores, triggers |-> <<>>]
    ELSE [scores |-> prev[1].tally.scores, triggers |-> prev[1].tally.triggers]

\* Tally(): default_factory builds a new score dict and a new trigger list for
\* every instance, whatever an earlier instance that is still alive (prev) holds
NewTally(prev) == [scores |-> ZeroScores, triggers |-> <<>>]

\* Tally.add as it would be with  =  in place of  +=
TallyAddAssign(tally, cat, amt, reason) ==
    [scores   |-> [tally.scores EXCEPT ![cat] = FMax(FNeg(PER_VOTER_CAP), FMin(PER_VOTER_CAP, amt))],
     triggers |-> Append(tally.triggers,
                         reason \o "+" \o Fmt2(FMax(FNeg(PER_VOTER_CAP), FMin(PER_VOTER_CAP, amt))))]

\* Tally.add
TallyAdd(tally, cat, amt, reason) ==
    LET amt_capped == FMax(FNeg(PER_VOTER_CAP), FMin(PER_VOTER_CAP, amt))
    IN  [scores   |-> [tally.scores EXCEPT ![cat] = FAdd(@, amt_capped)],
         triggers |-> Append(tally.triggers, reason \o "+" \o Fmt2(amt_capped))]

\* cap_categories as it would be if the scores were left as tallied
cap_categories_skipped(tally) == tally

\* Tally.cap_categories
cap_categories(tally) ==
    [tally EXCEPT !.scores =
        [c \in CategorySet |-> FMax(FNeg(PER_CATEGORY_CAP), FMin(PER_CATEGORY_CAP, tally.scores[c]))]]

(***************************************************************************)
(* VOTERS                                                                  *)
(***************************************************************************)
Reverse(seq) == [i \in 1..Len(seq) |-> seq[Len(seq) + 1 - i]]

\* iteration order of a Python set of strings: fixed within a process, chosen
\* by the string hash seed of the process
SetOrder(seq, seed) == IF seed = 0 THEN seq ELSE Reverse(seq)

\* one vote per cue of cues (in order) that occurs in hay
CueVotes(cues, hay, cat, tenths, prefix) ==
    LET hit == SelectSeq(cues, LAMBDA cue : Contains(cue, hay))
    IN  [i \in 1..Len(hit) |-> Vote(cat, Double(tenths), prefix \o hit[i])]

\* one vote per keyword of table (in order) that occurs in hay
KeywordVotes(table, hay, cat, prefix) ==
    LET hit == SelectSeq(table, LAMBDA kw : Contains(kw[1], hay))
    IN  [i \in 1..Len(hit) |-> Vote(cat, Double(hit[i][2]), prefix \o hit[i][1])]

\* <<v>> when cond holds, else no vote
VoteIf(cond, v) == IF cond THEN <<v>> ELSE <<>>

\* domain_voter as it would be with  dom == hint  in place of  hint in dom
domain_voter_exact(url_parts) ==
    VoteIf(\E k \in 1..Len(DOMAIN_HINTS_PRIMARY) : DOMAIN_HINTS_PRIMARY[k] = url_parts.domain,
           Vote("Primary", Double(11), "domain:primary:" \o url_parts.domain))
    \o VoteIf(\E k \in 1..Len(DOMAIN_HINTS_SECONDARY) : DOMAIN_HINTS_SECONDARY[k] = url_parts.domain,
              Vote("Secondary", Double(16), "domain:secondary:" \o url_parts.domain))
    \o VoteIf(\E k \in 1..Len(DOMAIN_HINTS_TERTIARY) : DOMAIN_HINTS_TERTIARY[k] = url_parts.domain,
              Vote("Tertiary", Double(22), "domain:tertiary:" \o url_parts.domain))
    \o VoteIf(\E k \in 1..Len(DOMAIN_HINTS_OTHER) : DOMAIN_HINTS_OTHER[k] = url_parts.domain,
              Vote("Other", Double(11), "domain:other:" \o url_parts.domain))

domain_voter(url_parts) ==
    LET dom == url_parts.domain
    IN  VoteIf(any_in(DOMAIN_HINTS_PRIMARY, dom), Vote("Primary", Double(11), "domain:primary:" \o dom))
        \o VoteIf(any_in(DOMAIN_HINTS_SECONDARY, dom), Vote("Secondary", Double(16), "domain:secondary:" \o dom))
        \o VoteIf(any_in(DOMAIN_HINTS_TERTIARY, dom), Vote("Tertiary", Double(22), "domain:tertiary:" \o dom))
        \o VoteIf(any_in(DOMAIN_HINTS_OTHER, dom), Vote("Other", Double(11), "domain:other:" \o dom))

url_path_voter(url_parts, seed) ==
    LET path_full == safe_lower(url_parts.path \o "?" \o url_parts.query)
    IN  CueVotes(SetOrder(URL_PRIMARY_CUES, seed), path_full, "Primary", 15, "url:primary:")
        \o CueVotes(SetOrder(URL_SECONDARY_CUES, seed), path_full, "Secondary", 18, "url:secondary:")
        \o CueVotes(SetOrder(URL_TERTIARY_CUES, seed), path_full, "Tertiary", 20, "url:tertiary:")

\* " ".join(filter(None, texts))
RECURSIVE JoinNonEmpty(_)
JoinNonEmpty(texts) ==
    IF texts = <<>> THEN ""
    ELSE LET rest == JoinNonEmpty(Tail(texts))
         IN  IF Head(texts) = "" THEN rest
             ELSE IF rest = "" THEN Head(texts)
             ELSE Head(texts) \o " " \o rest

\* keyword_voter as it would be if only the first candidate (the title) were searched
keyword_voter_title_only(text_candidates) ==
    KeywordVotes(PRIMARY_KEYWORDS, safe_lower(text_candidates[1]), "Primary", "kw:primary:")
    \o KeywordVotes(SECONDARY_KEYWORDS, safe_lower(text_candidates[1]), "Secondary", "kw:secondary:")
    \o KeywordVotes(TERTIARY_KEYWORDS, safe_lower(text_candidates[1]), "Tertiary", "kw:tertiary:")
    \o KeywordVotes(OTHER_KEYWORDS, safe_lower(text_candidates[1]), "Other", "kw:other:")

keyword_voter(text_candidates) ==
    LET joined == JoinNonEmpty([i \in 1..Len(text_candidates) |-> safe_lower(text_candidates[i])])
    IN  KeywordVotes(PRIMARY_KEYWORDS, joined, "Primary", "kw:primary:")
        \o KeywordVotes(SECONDARY_KEYWORDS, joined, "Secondary", "kw:secondary:")
        \o KeywordVotes(TERTIARY_KEYWORDS, joined, "Tertiary", "kw:tertiary:")
        \o KeywordVotes(OTHER_KEYWORDS, joined, "Other", "kw:other:")

\* a or b for strings
StrOr(a, b) == IF a # "" THEN a ELSE b

date_voter(text_for_dates, meta, nowYear) ==
    LET ys       == extract_years(text_for_dates, nowYear)
        earliest == ys.earliest
        latest   == ys.latest
        meta_pub == safe_lower(MetaGet(meta, "article:published_time"))
        meta_mod == safe_lower(StrOr(MetaGet(meta, "article:modified_time"), MetaGet(meta, "og:updated_time")))
        meta_has_modern == \E y \in 2010..nowYear : Contains(IntStr(y), meta_pub \o " " \o meta_mod)
        hasEarliest == earliest # None /\ earliest[1] # 0
        inWindow == /\ hasEarliest
                    /\ PRIMARY_YEAR_WINDOW[1] <= earliest[1]
                    /\ earliest[1] <= PRIMARY_YEAR_WINDOW[2]
    IN  (IF inWindow
         THEN <<Vote("Primary", Double(14), "date:early_web:" \o IntStr(earliest[1]))>>
              \o VoteIf(latest # None /\ latest[1] # 0 /\ latest[1] > PRIMARY_YEAR_WINDOW[2] + 5,
                        Vote("Secondary", Double(17), "date:modern_retro"))
         ELSE VoteIf(hasEarliest, Vote("Secondary", Double(10), "date:recent:" \o IntStr(earliest[1]))))
        \o VoteIf(meta_has_modern, Vote("Secondary", Double(8), "meta:modern_pub"))

structure_voter(full_text, seed) ==
    LET text    == safe_lower(full_text)
        headers == SelectSeq(SetOrder(STRUCTURE_SECONDARY_HEADERS, seed),
                             LAMBDA h : WordSearch(<<h>>, text))
    IN  [i \in 1..Len(headers) |-> Vote("Secondary", Double(6), "struct:secondary:" \o headers[i])]
        \o (IF has_references_section(text)
            THEN <<Vote("Secondary", Double(8), "struct:references"),
                   Vote("Tertiary", Double(4), "struct:references:ter")>>
            ELSE <<>>)
        \o VoteIf(WordSearch(<<"definition", "definitions", "terminology", "nomenclature", "lexicon">>, text),
                  Vote("Tertiary", Double(6), "struct:definitions"))

\* len(re.findall(r"[\"'].*?[\"']", text)) counted from position i
RECURSIVE CountQuotes(_, _)
CountQuotes(text, i) ==
    LET open  == FindChar(Quotes, text, i)
        close == IF open = 0 THEN 0 ELSE FindChar(Quotes, text, open + 1)
    IN  IF close = 0 THEN 0
        ELSE IF Contains("\n", SubSeq(text, open, close)) THEN CountQuotes(text, open + 1)
        ELSE 1 + CountQuotes(text, close + 1)

artifact_voter(url_parts, title, text) ==
    VoteIf(looks_like_pdf(url_parts.full, text), Vote("Primary", Double(12), "artifact:pdf"))
    \o VoteIf(Contains("/rfc/", url_parts.path) \/ Contains("rfc ", safe_lower(title)),
              Vote("Primary", Double(18), "artifact:rfc"))
    \o VoteIf(WordSearch(<<"must", "shall", "should", "may", "conform", "requirement">>, safe_lower(text)),
              Vote("Primary", Double(7), "artifact:spec_language"))
    \o VoteIf(CountQuotes(text, 1) >= 8, Vote("Secondary", Double(6), "artifact:heavy_quotes"))

(***************************************************************************)
(* SOFTMAX / SMOOTHING                                                     *)
(***************************************************************************)
\* a fraction num / den
Frac(num, den) == [num |-> num, den |-> den]

FracLt(a, b) == IF a.den = b.den THEN a.num < b.num ELSE a.num * b.den < b.num * a.den

\* max(values) of a non-empty sequence of doubles
RECURSIVE FMaxSeq(_)
FMaxSeq(vs) == IF Len(vs) = 1 THEN vs[1] ELSE FMax(FMaxSeq(SubSeq(vs, 1, Len(vs) - 1)), vs[Len(vs)])

\* math.exp(d / SOFTMAX_TEMP) for d <= 0, in millionths
ExpOverTemp(d) ==
    LET k == 0 - Tenths(d)
    IN  IF k < 0 THEN ExpTable[1] ELSE IF k < Len(ExpTable) THEN ExpTable[k + 1] ELSE 0

\* sum of the first n values of a dict over the categories
RECURSIVE SumUpTo(_, _)
SumUpTo(vals, n) == IF n = 0 THEN 0 ELSE SumUpTo(vals, n - 1) + vals[CATEGORIES[n]]

\* exps = {k: math.exp((v - max_v) / temp) ...}
Exps(scores, max_v) == [c \in CategorySet |-> ExpOverTemp(FAdd(scores[c], FNeg(max_v)))]

\* the exps as they would be returned without the division by their sum
Unnormalized(exps, sum) == [c \in CategorySet |-> Frac(exps[c], ExpTable[1])]

\* {k: exps[k] / denom ...}  with  denom = sum(exps.values()) or 1.0
Normalized(exps, sum) == [c \in CategorySet |-> Frac(exps[c], IF sum = 0 THEN 1 ELSE sum)]

NormalizedExps(exps) == Normalized(exps, SumUpTo(exps, Len(CATEGORIES)))

softmax(scores) ==
    NormalizedExps(Exps(scores, FMaxSeq([i \in 1..Len(CATEGORIES) |-> scores[CATEGORIES[i]]])))

\* max(confidences, key=confidences.get): the first key, in dict order, of maximal value
RECURSIVE ArgMaxUpTo(_, _)
ArgMaxUpTo(confidences, n) ==
    IF n = 1 THEN CATEGORIES[1]
    ELSE LET best == ArgMaxUpTo(confidences, n - 1)
         IN  IF FracLt(confidences[best], confidences[CATEGORIES[n]]) THEN CATEGORIES[n] ELSE best

\* the argmax as it would be if a later category won a tie
RECURSIVE ArgMaxLastUpTo(_, _)
ArgMaxLastUpTo(confidences, n) ==
    IF n = 1 THEN CATEGORIES[1]
    ELSE IF FracLt(confidences[CATEGORIES[n]], confidences[ArgMaxLastUpTo(confidences, n - 1)])
         THEN ArgMaxLastUpTo(confidences, n - 1)
         ELSE CATEGORIES[n]

ArgMaxLast(confidences) == ArgMaxLastUpTo(confidences, Len(CATEGORIES))

ArgMax(confidences) == ArgMaxUpTo(confidences, Len(CATEGORIES))

(***************************************************************************)
(* CORE CLASSIFIER                                                         *)
(***************************************************************************)
\* the override lookup as it would be on the URL as given, not lower-cased
OverrideIndexCaseSensitive(url) ==
    IF \E k \in 1..Len(EXPLICIT_OVERRIDES) : Contains(EXPLICIT_OVERRIDES[k][1], url)
    THEN SetMin({k \in 1..Len(EXPLICIT_OVERRIDES) : Contains(EXPLICIT_OVERRIDES[k][1], url)})
    ELSE 0

\* the first override, in dict order, whose substring occurs in url_l; 0 when none
OverrideIndex(url) ==
    LET url_l == safe_lower(url)
        hits  == {k \in 1..Len(EXPLICIT_OVERRIDES) : Contains(EXPLICIT_OVERRIDES[k][1], url_l)}
    IN  IF hits = {} THEN 0 ELSE SetMin(hits)

\* the dict returned by the override branch; 0.98 = 147/150 and 0.02 / 3.0 = 1/150
OverrideResult(sub, cat) ==
    [category    |-> cat,
     confidence  |-> Frac(147, 150),
     scores      |-> [c \in CategorySet |-> IF c = cat THEN Double(100) ELSE Double(0)],
     confidences |-> [c \in CategorySet |-> IF c = cat THEN Frac(147, 150) ELSE Frac(1, 150)],
     explanation |-> <<"Explicit override matched: " \o sub \o " -> " \o cat>>,
     triggers    |-> <<"override:" \o sub>>]

\* " ".join(texts)
RECURSIVE JoinSpace(_)
JoinSpace(texts) ==
    IF Len(texts) = 1 THEN texts[1]
    ELSE JoinSpace(SubSeq(texts, 1, Len(texts) - 1)) \o " " \o texts[Len(texts)]

\* text_for_kw: the joined texts, then the date hint when one is given
TextForKw(title, meta, body_text, meta_date_hint) ==
    JoinSpace(<<title, MetaGet(meta, "description"), MetaGet(meta, "og:title"),
                MetaGet(meta, "og:description"), MetaGet(meta, "twitter:title"),
                MetaGet(meta, "twitter:description"), body_text>>)
        \o (IF meta_date_hint # None /\ meta_date_hint[1] # "" THEN " " \o meta_date_hint[1] ELSE "")

ContextOf(parts, title, meta, body_text, meta_date_hint) ==
    [parts       |-> parts,
     title       |-> title,
     meta        |-> meta,
     body_text   |-> body_text,
     text_for_kw |-> TextForKw(title, meta, body_text, meta_date_hint)]

\* what classify_source derives from its arguments before any voter runs
Context(url, raw_html, meta_date_hint) ==
    ContextOf(parse_url(url), extract_title(raw_html), extract_meta(raw_html),
              strip_tags(raw_html), meta_date_hint)

\* the list  voters = [("domain", ...), ...]  of classify_source
Voters(c, nowYear, seed) ==
    << <<"domain", domain_voter(c.parts)>>,
       <<"url_path", url_path_voter(c.parts, seed)>>,
       <<"keywords", keyword_voter(<<c.title, MetaGet(c.meta, "description"), c.text_for_kw>>)>>,
       <<"dates", date_voter(c.text_for_kw, c.meta, nowYear)>>,
       <<"structure", structure_voter(c.body_text, seed)>>,
       <<"artifact", artifact_voter(c.parts, c.title, c.body_text)>> >>

\* the (voter_name, vote) pairs in the order the tally loop visits them
RECURSIVE Flatten(_)
Flatten(voters) ==
    IF voters = <<>> THEN <<>>
    ELSE [i \in 1..Len(voters[1][2]) |-> [voter |-> voters[1][1], vote |-> voters[1][2][i]]]
             \o Flatten(Tail(voters))

\* tally.add(v.category, v.amount, f"{voter_name}:{v.reason}")
AddPending(tally, p) == TallyAdd(tally, p.vote.category, p.vote.amount, p.voter \o ":" \o p.vote.reason)

\* tally.triggers[:300]
Head300(triggers) == IF Len(triggers) <= 300 THEN triggers ELSE SubSeq(triggers, 1, 300)

\* the dict returned after voting; the explanation is kept as the tuple of the
\* values its lines are formatted from
ResultOf(tally, c, explain, confidences, category) ==
    [category    |-> category,
     confidence  |-> confidences[category],
     scores      |-> tally.scores,
     confidences |-> confidences,
     explanation |-> IF explain
                     THEN <<"Category: " \o category, confidences[category], tally.scores,
                            confidences, "Title: " \o c.title, c.meta, Head300(tally.triggers)>>
                     ELSE <<>>,
     triggers    |-> tally.triggers]

ResultWith(tally, c, explain, confidences) ==
    ResultOf(tally, c, explain, confidences, ArgMax(confidences))

VotingResult(tally, c, explain) == ResultWith(tally, c, explain, softmax(tally.scores))

\* the tally after the loop over pending
RECURSIVE AddAll(_, _)
AddAll(tally, pending) ==
    IF pending = <<>> THEN tally
    ELSE AddAll(AddPending(tally, Head(pending)), Tail(pending))

\* the voting path run to completion on a context
VoteOn(c, explain, nowYear, seed) ==
    IF c.parts.raised THEN None
    ELSE Some(VotingResult(cap_categories(AddAll(NewTally(None), Flatten(Voters(c, nowYear, seed)))),
                           c, explain))

\* classify_source run to completion: None when it raises
classify_source(url, raw_html, meta_date_hint, explain, nowYear, seed) ==
    IF OverrideIndex(url) # 0
    THEN Some(OverrideResult(EXPLICIT_OVERRIDES[OverrideIndex(url)][1],
                             EXPLICIT_OVERRIDES[OverrideIndex(url)][2]))
    ELSE VoteOn(Context(url, raw_html, meta_date_hint), explain, nowYear, seed)

(***************************************************************************)
(* The calls a client makes, one at a time (the engine is synchronous)     *)
(***************************************************************************)
\* how many times the calendar year may change while the process runs
MaxTicks == 1

Years == 2026..(2026 + MaxTicks)

URLS ==
    {"",
     "https://en.wikipedia.org/wiki/Web",
     "https://en.wikipedia.org/wiki/timeline/overview/history-of",
     "https://home.cern/science/computing/birth-web/short-history-web",
     "HTTPS://Home.CERN/Science/computing/birth-web/short-history-web?a",
     "https://www.ietf.org/rfc/spec/minutes.pdf",
     "https://cern.ch/rfc/x",
     "https://medium.com/@a/blog",
     "http://[::1"}

HTMLS ==
    {"",
     "must",
     "rfc",
     "specification",
     "rfc specification must",
     "In 1991 and 2020",
     "<meta property='article:published_time' content='2027-01-01'>",
     "<title>My blog</title><script>rfc</script>Opinion. <b>References</b>",
     "Analysis and overview: a survey, a synthesis, a retrospective.",
     "<title>RFC 1945</title>",
     "<title>RFC1945</title>",
     "<title>About the RFC</title>"}

HINTS == {None, Some("1991 2020")}

Inputs ==
    [url : URLS, raw_html : HTMLS, meta_date_hint : HINTS, explain : BOOLEAN]

\* the client keeps the first result it gets for one of these calls, and with
\* it the Tally of that call; every other result is dropped at the next call
Probes ==
    [url : {"https://cern.ch/rfc/x"},
     raw_html : {"<meta property='article:published_time' content='2027-01-01'>"},
     meta_date_hint : {None}, explain : {TRUE}]

VARIABLES
    nowYear,    \* datetime.now().year
    hashSeed,   \* the string hash seed of the process
    pc,         \* where classify_source stands
    args,       \* the arguments of the current call
    ctx,        \* parts, title, meta, body_text, text_for_kw
    pending,    \* the (voter_name, vote) pairs not yet tallied
    tally,      \* the Tally of the current call
    result,     \* what the current call returned
    readYear,   \* the year the voters of the current call read
    memo,       \* the first result of a probe call, which the client keeps
    sources,    \* the bot's dict  url -> category, as (url, category) pairs
    file,       \* what sources.json holds
    reply       \* the command the bot handled last and what it answered

vars == <<nowYear, hashSeed, pc, args, ctx, pending, tally, result, readYear, memo, sources, file, reply>>

Init ==
    /\ nowYear = 2026
    /\ hashSeed \in {0, 1}
    /\ pc = "idle"
    /\ args = None
    /\ ctx = None
    /\ pending = <<>>
    /\ tally = None
    /\ result = None
    /\ readYear = None
    /\ memo = None
    /\ sources = {}
    /\ file = {}
    /\ reply = None

\* what the client holds once the call that has just ended is behind it
Remember ==
    IF memo = None /\ pc = "returned" /\ tally # None /\ args[1] \in Probes
    THEN Some([args |-> args[1], year |-> readYear, result |-> result[1], tally |-> tally[1]])
    ELSE memo

\* a client calls classify_source(a.url, a.raw_html, a.meta_date_hint, a.explain)
Call(a) ==
    /\ pc \in {"idle", "returned", "raised"}
    /\ pc' = "override"
    /\ args' = Some(a)
    /\ ctx' = None
    /\ pending' = <<>>
    /\ result' = None
    /\ tally' = None
    /\ readYear' = None
    /\ memo' = Remember
    /\ UNCHANGED <<nowYear, hashSeed, sources, file, reply>>

\* the loop over EXPLICIT_OVERRIDES: return at the first match
CheckOverrides ==
    /\ pc = "override"
    /\ IF OverrideIndex(args[1].url) # 0
       THEN /\ result' = Some(OverrideResult(EXPLICIT_OVERRIDES[OverrideIndex(args[1].url)][1],
                                             EXPLICIT_OVERRIDES[OverrideIndex(args[1].url)][2]))
            /\ pc' = "returned"
       ELSE /\ pc' = "parse"
            /\ result' = result
    /\ UNCHANGED <<nowYear, hashSeed, args, ctx, pending, tally, readYear, memo, sources, file, reply>>

\* parse_url, extract_title, extract_meta, strip_tags, text_for_kw
ParseAndExtract ==
    /\ pc = "parse"
    /\ IF parse_url(args[1].url).raised
       THEN /\ pc' = "raised"
            /\ ctx' = ctx
       ELSE /\ pc' = "voters"
            /\ ctx' = Some(Context(args[1].url, args[1].raw_html, args[1].meta_date_hint))
    /\ UNCHANGED <<nowYear, hashSeed, args, pending, tally, result, readYear, memo, sources, file, reply>>

\* tally = Tally() and the voters list: every voter runs before any vote is tallied
RunVoters ==
    /\ pc = "voters"
    /\ tally' = Some(NewTally(memo))
    /\ pending' = Flatten(Voters(ctx[1], nowYear, hashSeed))
    /\ readYear' = Some(nowYear)
    /\ pc' = "tally"
    /\ UNCHANGED <<nowYear, hashSeed, args, ctx, result, memo, sources, file, reply>>

\* one turn of the tally loop
AddVote ==
    /\ pc = "tally"
    /\ pending # <<>>
    /\ tally' = Some(AddPending(tally[1], Head(pending)))
    /\ pending' = Tail(pending)
    /\ UNCHANGED <<nowYear, hashSeed, pc, args, ctx, result, readYear, memo, sources, file, reply>>

\* tally.cap_categories()
CapCategories ==
    /\ pc = "tally"
    /\ pending = <<>>
    /\ tally' = Some(cap_categories(tally[1]))
    /\ pc' = "softmax"
    /\ UNCHANGED <<nowYear, hashSeed, args, ctx, pending, result, readYear, memo, sources, file, reply>>

\* softmax, argmax, explanation, return
Finish ==
    /\ pc = "softmax"
    /\ result' = Some(VotingResult(tally[1], ctx[1], args[1].explain))
    /\ pc' = "returned"
    /\ UNCHANGED <<nowYear, hashSeed, args, ctx, pending, tally, readYear, memo, sources, file, reply>>

\* New Year
Tick ==
    /\ nowYear + 1 \in Years
    /\ nowYear' = nowYear + 1
    /\ UNCHANGED <<hashSeed, pc, args, ctx, pending, tally, result, readYear, memo, sources, file, reply>>

Next ==
    \/ \E a \in Inputs : Call(a)
    \/ CheckOverrides
    \/ ParseAndExtract
    \/ RunVoters
    \/ AddVote
    \/ CapCategories
    \/ Finish
    \/ Tick

Spec == Init /\ [][Next]_vars

(***************************************************************************)
(* The same calls with the tally loop free to take the pending votes in    *)
(* any order                                                               *)
(***************************************************************************)
OrderInputs ==
    [url : {"https://cern.ch/rfc/x", "https://cern.ch/a.pdf"},
     raw_html : {"must", "memo"},
     meta_date_hint : {None}, explain : {FALSE}]

\* seq without its i-th element
RemoveAt(seq, i) == SubSeq(seq, 1, i - 1) \o SubSeq(seq, i + 1, Len(seq))

\* one turn of a tally loop that visits the (voter_name, vote) pairs in some other order
AddAnyVote ==
    /\ pc = "tally"
    /\ \E i \in 1..Len(pending) :
          /\ tally' = Some(AddPending(tally[1], pending[i]))
          /\ pending' = RemoveAt(pending, i)
    /\ UNCHANGED <<nowYear, hashSeed, pc, args, ctx, result, readYear, memo, sources, file, reply>>

NextAnyOrder ==
    \/ \E a \in OrderInputs : Call(a)
    \/ CheckOverrides
    \/ ParseAndExtract
    \/ RunVoters
    \/ AddAnyVote
    \/ CapCategories
    \/ Finish

SpecAnyOrder == Init /\ [][NextAnyOrder]_vars


(***************************************************************************)
(* The bot commands that keep the url -> category store (SourceBot.py).    *)
(* A handler runs to its end before the next command is handled: it does   *)
(* not await between reading the store and saving it.                      *)
(***************************************************************************)
\* the tuple  valid  of edit_source
VALID_LABELS == <<"Primary", "Secondary", "Tertiary", "Other/Very Biased/Unrelated">>

ValidLabelSet == {VALID_LABELS[i] : i \in 1..Len(VALID_LABELS)}

UpperOf == [c \in LowerSet |-> UpperChars[CHOOSE i \in 1..26 : LowerChars[i] = c]]

\* str.capitalize(): the first character upper-cased, the others lower-cased
capitalize(s) ==
    IF s = "" THEN ""
    ELSE (IF CharAt(s, 1) \in LowerSet THEN UpperOf[CharAt(s, 1)] ELSE CharAt(s, 1))
             \o safe_lower(From(s, 2))

\* url in sources
Has(store, url) == \E p \in store : p[1] = url

\* sources[url]
Lookup(store, url) == (CHOOSE p \in store : p[1] = url)[2]

\* sources[url] = cat
Put(store, url, cat) == {p \in store : p[1] # url} \cup {<<url, cat>>}

\* del sources[url]
Del(store, url) == {p \in store : p[1] # url}

\* save_sources(): json.dump(sources) into the store file
save_sources(store) == store

\* the three outcomes of requests.get in is_valid_url: an exception, or a
\* response with its status code
Statuses == {None, Some(200), Some(404)}

is_valid_url(status) == status # None /\ status[1] < 400

\* add_source as it would be without the longer label for Other
StoredLabelNoAlias(res) == res.category

\* the category add_source stores for a classification result
StoredLabel(res) ==
    IF res.confidence.num * 4 = res.confidence.den THEN "Other/Very Biased/Unrelated"
    ELSE IF res.category = "Other" THEN "Other/Very Biased/Unrelated"
    ELSE res.category

BotUrls ==
    {"https://medium.com/@a/blog",
     "https://example.com/",
     "http://[::1"}

\* res = classify_source(url, explain=True), None when it raises
Classified(url) == classify_source(url, "", None, TRUE, nowYear, hashSeed)

Reply(cmd, url, arg, text) == Some([cmd |-> cmd, url |-> url, arg |-> arg, text |-> text])

EditArgs == ValidLabelSet \cup {"primary", "Other", "Quaternary"}

\* the stores over BotUrls whose values are all valid, the empty one included
ValidStores ==
    {{<<u, f[u]>> : u \in {v \in BotUrls : f[v] # ""}} : f \in [BotUrls -> ValidLabelSet \cup {""}]}

\* the module is loaded: sources is what the store file holds
InitBot ==
    /\ nowYear = 2026
    /\ hashSeed \in {0, 1}
    /\ pc = "idle"
    /\ args = None
    /\ ctx = None
    /\ pending = <<>>
    /\ tally = None
    /\ result = None
    /\ readYear = None
    /\ memo = None
    /\ file \in ValidStores
    /\ sources = file
    /\ reply = None

\* the try block of add_source, res being what classify_source returned, None
\* when it raised
StoreVerdict(url, res) ==
    IF res = None
    THEN /\ reply' = Reply("add_source", url, "", "failed")
         /\ UNCHANGED <<sources, file>>
    ELSE /\ sources' = Put(sources, url, StoredLabel(res[1]))
         /\ file' = save_sources(sources')
         /\ reply' = Reply("add_source", url, "", "added")

\* !add_source url, with what the server answered to is_valid_url
add_source(url, status) ==
    /\ IF ~is_valid_url(status)
       THEN /\ reply' = Reply("add_source", url, "", "unreachable")
            /\ UNCHANGED <<sources, file>>
       ELSE StoreVerdict(url, Classified(url))
    /\ UNCHANGED <<nowYear, hashSeed, pc, args, ctx, pending, tally, result, readYear, memo>>

\* !remove_source url
remove_source(url) ==
    /\ IF ~Has(sources, url)
       THEN /\ reply' = Reply("remove_source", url, "", "not_found")
            /\ UNCHANGED <<sources, file>>
       ELSE /\ sources' = Del(sources, url)
            /\ file' = save_sources(sources')
            /\ reply' = Reply("remove_source", url, "", "removed")
    /\ UNCHANGED <<nowYear, hashSeed, pc, args, ctx, pending, tally, result, readYear, memo>>

\* !edit_source url new_category
edit_source(url, new_category) ==
    /\ IF ~Has(sources, url)
       THEN /\ reply' = Reply("edit_source", url, new_category, "not_found")
            /\ UNCHANGED <<sources, file>>
       ELSE IF capitalize(new_category) \notin ValidLabelSet
       THEN /\ reply' = Reply("edit_source", url, new_category, "invalid_category")
            /\ UNCHANGED <<sources, file>>
       ELSE /\ sources' = Put(sources, url, capitalize(new_category))
            /\ file' = save_sources(sources')
            /\ reply' = Reply("edit_source", url, new_category, "updated")
    /\ UNCHANGED <<nowYear, hashSeed, pc, args, ctx, pending, tally, result, readYear, memo>>

NextBot ==
    \/ \E url \in BotUrls, status \in Statuses : add_source(url, status)
    \/ \E url \in BotUrls : remove_source(url)
    \/ \E url \in BotUrls, new_category \in EditArgs : edit_source(url, new_category)

SpecBot == InitBot /\ [][NextBot]_vars


(***************************************************************************)
(* What the returned dicts are checked against                             *)
(***************************************************************************)
\* the arguments and the result of the call that has returned
Returned == pc = "returned"

OnVotingPath == Returned /\ tally # None

\* every score lies within [-PER_CATEGORY_CAP, PER_CATEGORY_CAP]
WithinCategoryCap(scores) ==
    \A c \in CategorySet : FLe(FNeg(PER_CATEGORY_CAP), scores[c]) /\ FLe(scores[c], PER_CATEGORY_CAP)

\* every amount the trigger log of the current Tally records lies within [-3.50, 3.50]
VoteAmountsWithinCap ==
    tally # None =>
        \A i \in 1..Len(tally[1].triggers) :
            /\ TriggerAmount(tally[1].triggers[i]) >= 0 - Hundredths(PER_VOTER_CAP)
            /\ TriggerAmount(tally[1].triggers[i]) <= Hundredths(PER_VOTER_CAP)

\* the trigger log holds an entry with this label and this amount (in hundredths)
HasTrigger(triggers, label, hundredths) ==
    \E i \in 1..Len(triggers) :
        Contains(label, triggers[i]) /\ TriggerAmount(triggers[i]) = hundredths

\* |a - b| < 2^-30, which is below 1e-9
FClose(a, b) == FAdd(a, FNeg(b)).hi = 0 /\ FAdd(a, FNeg(b)).lo < Pow2(24)

\* the place of a category in CATEGORIES
CategoryIndex(cat) == CHOOSE i \in 1..Len(CATEGORIES) : CATEGORIES[i] = cat

\* the exp table is indexed by tenths: it is exact as long as two capped scores
\* of one result are equal or at least a twentieth apart
ScoresOnGrid ==
    tally # None /\ pc \in {"softmax", "returned"} =>
        \A c, d \in CategorySet :
            tally[1].scores[c] = tally[1].scores[d]
                \/ Tenths(tally[1].scores[c]) # Tenths(tally[1].scores[d])

(***************************************************************************)
(* C1                                                                      *)
(***************************************************************************)
\* C1 as stated: after every call, override matches included, every returned
\* score lies within [-8.0, 8.0], and every vote amount in the trigger log lies
\* within [-3.5, 3.5]
C1_ScoresWithinCapOnEveryCall ==
    /\ Returned => WithinCategoryCap(result[1].scores)
    /\ VoteAmountsWithinCap

\* C1: after a call that matched no override every returned score lies within
\* [-8.0, 8.0]; after a call that matched one the forced category scores 10.0
\* and the others 0.0; every vote amount in the trigger log lies within
\* [-3.5, 3.5]
C1_ScoresWithinCapOnVotingPath ==
    /\ Returned /\ OverrideIndex(args[1].url) = 0 => WithinCategoryCap(result[1].scores)
    /\ Returned /\ OverrideIndex(args[1].url) # 0 =>
           \A c \in CategorySet :
               result[1].scores[c] = IF c = result[1].category THEN Double(100) ELSE Double(0)
    /\ VoteAmountsWithinCap

\* a voting call has returned with the Primary score held at the cap
C1_Witness ==
    /\ OnVotingPath
    /\ result[1].scores["Primary"] = PER_CATEGORY_CAP
    /\ FLt(PER_CATEGORY_CAP, AddAll(NewTally(None), Flatten(Voters(ctx[1], readYear[1], hashSeed))).scores["Primary"])

(***************************************************************************)
(* C2                                                                      *)
(***************************************************************************)
CernOverride == "home.cern/science/computing/birth-web/short-history-web"

\* C2: a call whose lower-cased url contains the home.cern override substring
\* never reaches the parser, the voters or the tally, and returns Secondary,
\* 0.98, 0.02/3 for the others, scores 10.0 and 0.0, and the single trigger of
\* the override, whatever raw_html and meta_date_hint are
C2_OverrideShortCircuits ==
    args # None /\ Contains(CernOverride, safe_lower(args[1].url)) =>
        /\ pc \in {"override", "returned"}
        /\ ctx = None /\ tally = None /\ pending = <<>>
        /\ Returned =>
              /\ result[1].category = "Secondary"
              /\ result[1].confidence = Frac(147, 150)
              /\ \A c \in CategorySet \ {"Secondary"} : result[1].confidences[c] = Frac(1, 150)
              /\ result[1].confidences["Secondary"] = Frac(147, 150)
              /\ \A c \in CategorySet \ {"Secondary"} : result[1].scores[c] = Double(0)
              /\ result[1].scores["Secondary"] = Double(100)
              /\ result[1].triggers = <<"override:" \o CernOverride>>

\* an override call on a URL in another letter case, with page text that would
\* vote Primary, has returned
C2_Witness ==
    /\ Returned
    /\ args[1].url = "HTTPS://Home.CERN/Science/computing/birth-web/short-history-web?a"
    /\ args[1].raw_html = "rfc specification must"
    /\ args[1].meta_date_hint # None
    /\ result[1].category = "Secondary"

(***************************************************************************)
(* C3                                                                      *)
(***************************************************************************)
\* C3: after every call the confidences have exactly the four categories as
\* keys, each lies in [0, 1] and they sum to 1; the scores have the same keys
C3_ConfidencesAreDistribution ==
    Returned =>
        /\ DOMAIN result[1].confidences = CategorySet
        /\ DOMAIN result[1].scores = CategorySet
        /\ \A c \in CategorySet :
              /\ result[1].confidences[c].den = result[1].confidences[CATEGORIES[1]].den
              /\ result[1].confidences[c].den > 0
              /\ 0 <= result[1].confidences[c].num
              /\ result[1].confidences[c].num <= result[1].confidences[c].den
        /\ SumUpTo([c \in CategorySet |-> result[1].confidences[c].num], Len(CATEGORIES))
               = result[1].confidences[CATEGORIES[1]].den

\* a voting call has returned Tertiary with the four confidences all different
\* from the uniform 0.25
C3_Witness ==
    /\ OnVotingPath
    /\ result[1].category = "Tertiary"
    /\ \A c \in CategorySet : result[1].confidences[c].num * 4 # result[1].confidences[c].den

(***************************************************************************)
(* C4                                                                      *)
(***************************************************************************)
\* C4: after every call no category has a higher confidence than the returned
\* one, the returned confidence is the confidence of the returned category,
\* and the returned category is the first, in the order of CATEGORIES, of
\* those with the maximal score
C4_CategoryIsFirstArgmax ==
    Returned =>
        /\ \A c \in CategorySet :
              ~FracLt(result[1].confidences[result[1].category], result[1].confidences[c])
        /\ result[1].confidence = result[1].confidences[result[1].category]
        /\ \A c \in CategorySet : FLe(result[1].scores[c], result[1].scores[result[1].category])
        /\ \A j \in 1..(CategoryIndex(result[1].category) - 1) :
              FLt(result[1].scores[CATEGORIES[j]], result[1].scores[result[1].category])

\* a voting call has returned with two categories sharing the maximal score
\* after votes were tallied
C4_Witness ==
    /\ OnVotingPath
    /\ result[1].triggers # <<>>
    /\ \E c \in CategorySet \ {result[1].category} :
          result[1].scores[c] = result[1].scores[result[1].category]


(***************************************************************************)
(* C5                                                                      *)
(***************************************************************************)
\* the years the documented extraction finds in text: the standalone 4-digit
\* numbers 18xx, 19xx, 20xx within (1800, nowYear]
PlausibleYears(text, year) ==
    {y \in {ParseInt(SubSeq(text, i, i + 3)) : i \in YearMatches(text)} : 1800 < y /\ y <= year}

\* a voting call has returned for a page whose analysis text has 1991 as its
\* earliest and 2020 as its latest plausible year
EarlyAndModernPage ==
    /\ OnVotingPath
    /\ PlausibleYears(ctx[1].text_for_kw, readYear[1]) # {}
    /\ SetMin(PlausibleYears(ctx[1].text_for_kw, readYear[1])) = 1991
    /\ SetMax(PlausibleYears(ctx[1].text_for_kw, readYear[1])) = 2020

\* C5: for such a page the trigger list holds the Primary early-window vote
\* (1.4) and the Secondary modern-retrospective vote (1.7), and both are in
\* the tallied scores
C5_BothDateVotesFire ==
    EarlyAndModernPage =>
        /\ HasTrigger(result[1].triggers, "date:early_web", 140)
        /\ HasTrigger(result[1].triggers, "date:modern_retro", 170)
        /\ FLe(Double(14), result[1].scores["Primary"])
        /\ FLe(Double(17), result[1].scores["Secondary"])

\* such a page has been classified with no date vote in the trigger list
C5_Witness ==
    /\ EarlyAndModernPage
    /\ args[1].url = ""
    /\ \A i \in 1..Len(result[1].triggers) : ~Contains("date:", result[1].triggers[i])

(***************************************************************************)
(* C6                                                                      *)
(***************************************************************************)
\* a later call has returned whose arguments are those of the call the client
\* kept the result of
RepeatedCall == Returned /\ memo # None /\ args[1] = memo[1].args

\* C6 as stated: two calls with identical arguments return identical results
C6_SameArgumentsSameResult ==
    RepeatedCall => result[1] = memo[1].result

\* a call of the same process, in the same year, repeats the kept call
SameYearRepeat == RepeatedCall /\ readYear = memo[1].year

\* the step that builds the Tally of a call
TallyBuilt == pc = "voters" /\ pc' = "tally"

\* C6: two calls of one process with identical arguments, whose voters read
\* the same current year, return identical results, whatever was called in
\* between; and the Tally of a call starts from zero scores and no triggers
\* whatever the Tally of an earlier call holds
C6_SameArgumentsSameYearSameResult ==
    /\ [](SameYearRepeat => result[1] = memo[1].result)
    /\ [][TallyBuilt => tally' = Some([scores |-> ZeroScores, triggers |-> <<>>])]_vars

\* the kept call tallied votes, and the same arguments have been classified
\* again in the same year with the same result
C6_Witness ==
    /\ SameYearRepeat
    /\ memo[1].result.triggers # <<>>
    /\ result[1] = memo[1].result

(***************************************************************************)
(* C7                                                                      *)
(***************************************************************************)
\* the Tally of the code's own order, capped
CodeOrderTally == cap_categories(AddAll(NewTally(None), Flatten(Voters(ctx[1], readYear[1], hashSeed))))

\* a and b hold the same triggers, each as often
SameTriggers(a, b) ==
    /\ Len(a) = Len(b)
    /\ \A i \in 1..Len(a) :
          Cardinality({j \in 1..Len(a) : a[j] = a[i]}) = Cardinality({j \in 1..Len(b) : b[j] = a[i]})

\* C7 as stated: whatever the order in which the votes were tallied, every
\* capped score is the one the code's order gives
C7_AnyOrderSameScores ==
    pc = "softmax" => tally[1].scores = CodeOrderTally.scores

\* C7: whatever the order in which the votes were tallied, every capped score
\* is within 1e-9 of the one the code's order gives, and the trigger log
\* holds the same entries
C7_AnyOrderCloseScores ==
    pc = "softmax" =>
        /\ \A c \in CategorySet : FClose(tally[1].scores[c], CodeOrderTally.scores[c])
        /\ SameTriggers(tally[1].triggers, CodeOrderTally.triggers)

\* votes tallied in another order have given a capped score that is not the
\* one of the code's order
C7_Witness ==
    /\ pc = "softmax"
    /\ tally[1].triggers # CodeOrderTally.triggers
    /\ tally[1].scores # CodeOrderTally.scores

(***************************************************************************)
(* C8                                                                      *)
(***************************************************************************)
\* a call has returned for a URL on en.wikipedia.org with /wiki/ in its path,
\* no PDF or RFC cue in the URL, and no page text
WikiPage ==
    /\ OnVotingPath
    /\ ctx[1].parts.domain = "en.wikipedia.org"
    /\ Contains("/wiki/", ctx[1].parts.path)
    /\ ~Contains(".pdf", ctx[1].parts.full)
    /\ ~Contains("rfc", ctx[1].parts.full)
    /\ args[1].raw_html = ""
    /\ args[1].meta_date_hint = None

\* Tertiary with confidence above 0.4, from the domain vote and the path vote
\* alone
TertiaryByDomainAndPath ==
    /\ result[1].category = "Tertiary"
    /\ FracLt(Frac(4, 10), result[1].confidence)
    /\ Tenths(result[1].scores["Tertiary"]) >= 42
    /\ HasTrigger(result[1].triggers, "domain:tertiary:", 220)
    /\ HasTrigger(result[1].triggers, "url:tertiary:/wiki/", 200)
    /\ \A c \in CategorySet \ {"Tertiary"} : result[1].scores[c] = Double(0)

\* C8 as stated: every such page is Tertiary by the domain and path votes alone
C8_WikiIsTertiary ==
    WikiPage => TertiaryByDomainAndPath

\* the path and query hold no Primary and no Secondary URL cue
NoOtherUrlCue ==
    /\ ~any_in(URL_PRIMARY_CUES, safe_lower(ctx[1].parts.path \o "?" \o ctx[1].parts.query))
    /\ ~any_in(URL_SECONDARY_CUES, safe_lower(ctx[1].parts.path \o "?" \o ctx[1].parts.query))

\* C8: every such page whose path and query hold no Primary or Secondary URL
\* cue is Tertiary by the domain and path votes alone
C8_WikiWithoutOtherCueIsTertiary ==
    WikiPage /\ NoOtherUrlCue => TertiaryByDomainAndPath

\* such a page has been classified
C8_Witness ==
    /\ WikiPage
    /\ NoOtherUrlCue
    /\ result[1].category = "Tertiary"

(***************************************************************************)
(* C9                                                                      *)
(***************************************************************************)
AllCuesText == "rfc specification must"

OneCueTexts == {"rfc", "specification", "must"}

\* the capped Primary score of the current call had it been made with this page
PrimaryScoreWith(raw_html) ==
    classify_source(args[1].url, raw_html, args[1].meta_date_hint, args[1].explain,
                    readYear[1], hashSeed)[1].scores["Primary"]

\* a voting call has returned for the page with all three cues
AllCuesPage == OnVotingPath /\ args[1].raw_html = AllCuesText

EmptyCall ==
    args # None /\ args[1].url = "" /\ args[1].raw_html = "" /\ args[1].meta_date_hint = None

\* C10: classify_source("", "") does not raise; no voter votes; it returns no
\* trigger, four scores of 0.0, four confidences of 0.25 and the first
\* category
C10_EmptyInputIsNeutral ==
    EmptyCall =>
        /\ pc # "raised"
        /\ pending = <<>>
        /\ Returned =>
              /\ tally # None
              /\ result[1].triggers = <<>>
              /\ \A c \in CategorySet : result[1].scores[c] = Double(0)
              /\ \A c \in CategorySet : result[1].confidences[c].num * 4 = result[1].confidences[c].den
              /\ result[1].confidence.num * 4 = result[1].confidence.den
              /\ result[1].category = CATEGORIES[1]

\* classify_source("", "") has returned Primary
C10_Witness ==
    /\ EmptyCall
    /\ Returned
    /\ args[1].explain
    /\ result[1].category = "Primary"


(***************************************************************************)
(* C12                                                                     *)
(***************************************************************************)
\* a voting call has returned for a URL whose path contains /rfc/ or a page
\* whose title contains rfc in some letter case
RfcCuePage ==
    /\ OnVotingPath
    /\ Contains("/rfc/", ctx[1].parts.path) \/ Contains("rfc", safe_lower(ctx[1].title))

\* the places of the artifact:rfc votes in the trigger log
RfcTriggers(triggers) ==
    {i \in 1..Len(triggers) : Contains("artifact:rfc", triggers[i])}

\* C12: such a call tallies the Primary artifact:rfc vote (1.8), whatever
\* follows rfc in the title, and no call tallies it more than once
C12_RfcVoteFiresOnce ==
    /\ RfcCuePage => HasTrigger(result[1].triggers, "artifact:rfc", 180)
    /\ OnVotingPath => Cardinality(RfcTriggers(result[1].triggers)) <= 1

\* a page whose title has rfc directly followed by a digit, or as its last
\* word, has been classified without the artifact:rfc vote
C12_Witness ==
    /\ RfcCuePage
    /\ ctx[1].title \in {"RFC1945", "About the RFC"}
    /\ args[1].url = ""
    /\ RfcTriggers(result[1].triggers) = {}

\* a page whose title has rfc followed by a space, and a URL with /rfc/ in its
\* path, has been classified with one artifact:rfc vote
RfcVoteSeen ==
    /\ RfcCuePage
    /\ ctx[1].title = "RFC 1945"
    /\ Contains("/rfc/", ctx[1].parts.path)
    /\ Cardinality(RfcTriggers(result[1].triggers)) = 1


(***************************************************************************)
(* C11                                                                     *)
(***************************************************************************)
\* every value of the store is one of the four labels, never the bare Other,
\* and no URL has two values
ValidStore(store) ==
    /\ \A p \in store : p[2] \in {"Primary", "Secondary", "Tertiary", "Other/Very Biased/Unrelated"}
    /\ \A p \in store : p[2] # "Other"
    /\ \A p, q \in store : p[1] = q[1] => p = q

\* C11: from a store whose values are all valid (the empty one included),
\* after any sequence of add_source, edit_source and remove_source every
\* stored value is one of the four labels, never the bare Other, and each URL
\* has at most one value; the store file holds the same
C11_StoreHoldsValidLabels ==
    /\ ValidStore(sources)
    /\ ValidStore(file)
    /\ file = sources

\* add_source has just stored the longer label for a URL the classifier
\* calls Other, next to another URL that has its own label
C11_Witness ==
    /\ reply # None
    /\ reply[1].cmd = "add_source"
    /\ reply[1].text = "added"
    /\ reply[1].url = "https://medium.com/@a/blog"
    /\ Classified(reply[1].url)[1].category = "Other"
    /\ <<reply[1].url, "Other/Very Biased/Unrelated">> \in sources
    /\ <<"https://example.com/", "Tertiary">> \in sources

(***************************************************************************)
(* C13                                                                     *)
(***************************************************************************)
\* the step that handles edit_source
EditHandled == reply' # None /\ reply'[1].cmd = "edit_source" /\ reply' # reply

\* C13: edit_source for a stored URL and one of the four labels it lists as
\* valid sets the category of that URL to that label; for an unknown URL or
\* any other category it answers with an error and leaves the store as it was
C13_EditSetsListedLabel ==
    [][EditHandled =>
          IF Has(sources, reply'[1].url) /\ reply'[1].arg \in ValidLabelSet
          THEN /\ sources' = {p \in sources : p[1] # reply'[1].url}
                                 \cup {<<reply'[1].url, reply'[1].arg>>}
               /\ reply'[1].text = "updated"
          ELSE /\ sources' = sources
               /\ reply'[1].text \in {"not_found", "invalid_category"}]_vars

\* edit_source has refused the fourth label it lists as valid, for a stored URL
C13_Witness ==
    /\ reply # None
    /\ reply[1].cmd = "edit_source"
    /\ reply[1].arg = "Other/Very Biased/Unrelated"
    /\ Has(sources, reply[1].url)
    /\ reply[1].text = "invalid_category"
    /\ Lookup(sources, reply[1].url) = "Primary"

====
